---- MODULE Spec2Model ----
(***************************************************************************)
(* A model of standup-notes (src/main.py): the stand-up digest that reads  *)
(* the active sprint, each engineer's issues, the most recent comment of   *)
(* each issue, its cross-project dependencies and GitLab merge-request     *)
(* statistics, and prints one report.                                      *)
(*                                                                         *)
(* Strings the code compares, parses or splits (ISO timestamps, issue      *)
(* keys, diffs) are sequences of one-character strings, so that parsing,   *)
(* lexicographic ordering, split() and count() are computed as the code    *)
(* computes them.                                                          *)
(***************************************************************************)
EXTENDS Integers, Sequences, FiniteSets, TLC

VARIABLES
    pc,          \* position of main(): the fetch or step that comes next
    out,         \* the lines printed so far, in order
    fetches,     \* the HTTP requests issued so far, in order
    config,      \* the loaded configuration (engineers, gitlab_token)
    today,       \* datetime.now() of the run, in ticks
    cur,         \* main()'s loop locals: engineer, issues, issue, dependencies, ...
    call,        \* the arguments of the function under test (function harnesses)
    ret          \* its return value

vars == <<pc, out, fetches, config, today, cur, call, ret>>

\* ------------------------------------------------------------------ bounds

\* The fixed-width "YYYY-MM-DDTHH:MM:SS" part of a timestamp is one digit, a tick.
MaxTick == 1
\* The longest comment list handed to get_issue_comments on its own.
MaxComments == 3
\* The longest list of issue links handed to get_issue_dependencies on its own.
MaxLinks == 2
\* The longest generated diff text and the longest list of changed entries handed
\* to the diff tally on its own.
MaxDiffLen == 3
MaxChanges == 2
\* The last day of the date-times handed to get_comment_cutoff_date on its own.
MaxDay == 13
\* The most text nodes of a paragraph, and of the paragraph before another, of the
\* documents handed to the comment body extraction on its own.
MaxNodes == 2
MaxLeadNodes == 1

\* ------------------------------------------------------------- Python values

\* Python's None.
None == [none |-> TRUE]

\* A JSON object is a record holding the keys that are present; {} holds none.
EmptyDict == [k \in {} |-> TRUE]

\* dict.get(k, default)
Get(d, k, default) == IF k \in DOMAIN d THEN d[k] ELSE default

\* bool(d) of a dict (or of the None a missing key reads as): it holds a key.
Truthy(d) == DOMAIN d # {}

\* All sequences over S of length at most n.
SeqsUpTo(S, n) == UNION {[1..k -> S] : k \in 0..n}

Max(a, b) == IF a >= b THEN a ELSE b

\* ---------------------------------------------------------------- strings

\* ord(c) of the characters timestamps are written with.
Ord(c) ==
    CASE c = "+" -> 43
      [] c = "," -> 44
      [] c = "-" -> 45
      [] c = "." -> 46
      [] c = "0" -> 48
      [] c = "1" -> 49
      [] c = "2" -> 50
      [] c = "3" -> 51
      [] c = "4" -> 52
      [] c = "5" -> 53
      [] c = "6" -> 54
      [] c = "7" -> 55
      [] c = "8" -> 56
      [] c = "9" -> 57
      [] c = ":" -> 58
      [] c = "Z" -> 90
      [] OTHER   -> 120

Digits == {"0", "1", "2", "3", "4", "5", "6", "7", "8", "9"}

DigitVal(c) == Ord(c) - 48

\* Python's str < str: lexicographic by code point, a proper prefix is smaller.
RECURSIVE StrLess(_, _)
StrLess(a, b) ==
    IF b = <<>> THEN FALSE
    ELSE IF a = <<>> THEN TRUE
    ELSE IF Ord(Head(a)) # Ord(Head(b)) THEN Ord(Head(a)) < Ord(Head(b))
    ELSE StrLess(Tail(a), Tail(b))

\* s.replace("Z", "+00:00")
RECURSIVE ReplaceZ(_)
ReplaceZ(s) ==
    IF s = <<>> THEN <<>>
    ELSE IF Head(s) = "Z" THEN <<"+", "0", "0", ":", "0", "0">> \o ReplaceZ(Tail(s))
    ELSE <<Head(s)>> \o ReplaceZ(Tail(s))

\* One tick, the fixed-width "YYYY-MM-DDTHH:MM:SS" part of a timestamp, is
\* TickUnits microseconds of the naive value.
TickUnits == 1000000

ValueError == [error |-> "ValueError"]

\* The terminator a C string ends with: what the parser reads behind the text.
NUL == ""

Pow10(n) == CASE n = 0 -> 1 [] n = 1 -> 10 [] n = 2 -> 100 [] n = 3 -> 1000
              [] n = 4 -> 10000 [] n = 5 -> 100000 [] OTHER -> 1000000

\* The character at position p of a segment that `follow` comes behind.
CharAt(seg, p, follow) == IF p <= Len(seg) THEN seg[p] ELSE follow

\* parse_digits: the n characters from p are digits, and their value.
all_digits(seg, p, n) ==
    p + n - 1 <= Len(seg) /\ \A j \in p..(p + n - 1) : seg[j] \in Digits

RECURSIVE digits_value(_, _, _)
digits_value(seg, p, n) ==
    IF n = 0 THEN 0
    ELSE digits_value(seg, p, n - 1) * 10 + DigitVal(seg[p + n - 1])

\* while (is_digit(*p)) ++p
RECURSIVE skip_digits(_, _)
skip_digits(seg, p) ==
    IF p <= Len(seg) /\ seg[p] \in Digits THEN skip_digits(seg, p + 1) ELSE p

\* The result of parse_hh_mm_ss_ff (CPython 3.11, _datetimemodule.c): rv is -1
\* for an error, 1 when text is left behind what was parsed, 0 at the end.
parse_error == [rv |-> -1, vals |-> <<0, 0, 0>>, microsecond |-> 0]

\* The fractional component: up to six digits are read, all of the first six
\* characters left must be digits, and further digits are skipped.
parse_fraction(seg, p, vals, follow) ==
    LET to_parse == IF Len(seg) - p + 1 >= 6 THEN 6 ELSE Len(seg) - p + 1
    IN  IF ~all_digits(seg, p, to_parse) THEN parse_error
        ELSE [rv          |-> IF CharAt(seg, skip_digits(seg, p + to_parse), follow) # NUL
                              THEN 1 ELSE 0,
              vals        |-> vals,
              microsecond |-> digits_value(seg, p, to_parse) * Pow10(6 - to_parse)]

\* The loop over [HH[:?MM[:?SS]]]: parse_field reads the two digits of field i,
\* parse_separator the character behind them. A colon, or nothing when the first
\* field had none behind it, leads to the next field and behind the third to the
\* fraction; a full stop or comma leads to the fraction; the last character of
\* the segment is read and not looked at.
RECURSIVE parse_field(_, _, _, _, _, _)
RECURSIVE parse_separator(_, _, _, _, _, _)
parse_field(seg, i, p, has_separator, vals, follow) ==
    IF ~all_digits(seg, p, 2) THEN parse_error
    ELSE parse_separator(seg, i, p + 2, has_separator,
                         [vals EXCEPT ![i + 1] = digits_value(seg, p, 2)], follow)

parse_separator(seg, i, p, has_separator, vals, follow) ==
    LET c   == CharAt(seg, p, follow)
        sep == IF i = 0 THEN c = ":" ELSE has_separator
    IN  IF p >= Len(seg)
        THEN [rv |-> IF c # NUL THEN 1 ELSE 0, vals |-> vals, microsecond |-> 0]
        ELSE IF sep /\ c = ":"
        THEN IF i < 2 THEN parse_field(seg, i + 1, p + 1, sep, vals, follow)
             ELSE parse_fraction(seg, p + 1, vals, follow)
        ELSE IF c \in {".", ","} THEN parse_fraction(seg, p + 1, vals, follow)
        ELSE IF ~sep
        THEN IF i < 2 THEN parse_field(seg, i + 1, p, sep, vals, follow)
             ELSE parse_fraction(seg, p, vals, follow)
        ELSE parse_error

\* The position of the first "Z", "+" or "-" of the text behind the seconds, one
\* behind its end when it has none.
tzinfo_pos(rest) ==
    LET Found == {k \in 1..Len(rest) : rest[k] \in {"Z", "+", "-"}}
    IN  IF Found = {} THEN Len(rest) + 1
        ELSE CHOOSE k \in Found : \A j \in Found : k <= j

\* What fromisoformat makes of the parsed time and offset: ValueError for text
\* left behind the time, for a "Z" that is not the last character and for an
\* offset that does not parse or is a day or more; else the naive value, which
\* replace(tzinfo=None) takes from the date and time without converting.
naive_value(tick, tz, time, offset) ==
    IF time.rv < 0 THEN ValueError
    ELSE IF tz = <<>> /\ time.rv = 1 THEN ValueError
    ELSE IF tz # <<>> /\ Head(tz) = "Z" /\ Len(tz) # 1 THEN ValueError
    ELSE IF tz # <<>> /\ Head(tz) # "Z"
            /\ (\/ offset.rv # 0
                \/ offset.vals[1] * 3600 + offset.vals[2] * 60 + offset.vals[3] >= 86400)
    THEN ValueError
    ELSE [value |-> tick * TickUnits + time.microsecond]

\* The value of datetime.fromisoformat(s).replace(tzinfo=None) as CPython 3.11
\* computes it: the tick digit (the date and time to the second), the fraction
\* behind it and the offset behind that; ValueError for any other string.
fromisoformat_naive(s) ==
    IF Len(s) = 0 \/ Head(s) \notin Digits THEN ValueError
    ELSE LET rest == Tail(s)
             pos  == tzinfo_pos(rest)
             tstr == SubSeq(rest, 1, pos - 1)
             tz   == SubSeq(rest, pos, Len(rest))
         IN  naive_value(DigitVal(s[1]), tz,
                         parse_separator(tstr, 2, 1, TRUE, <<0, 0, 0>>,
                                         IF tz = <<>> THEN NUL ELSE Head(tz)),
                         parse_field(Tail(tz), 0, 1, TRUE, <<0, 0, 0>>, NUL))

\* except (ValueError, AttributeError): continue (lines 50-51).
none_on_error(d) == IF d = ValueError THEN None ELSE d

\* The date of a timestamp string as lines 43-51 read it: None when the string is
\* empty or does not parse (the comment or batch is skipped), else the naive value.
parsed_date(s) ==
    IF s = <<>> THEN None ELSE none_on_error(fromisoformat_naive(ReplaceZ(s)))

\* created_date >= cutoff_date (line 48).
at_or_after(created_date, cutoff_date) ==
    created_date # None /\ created_date.value >= cutoff_date

\* created_date >= cutoff_date for a string that parses.
is_recent(s, cutoff_date) == at_or_after(parsed_date(s), cutoff_date)

\* --------------------------------------------------------- get_issue_comments

\* list.sort(key=created, reverse=True) is stable: an element goes behind every
\* element whose key is greater than or equal to its own.
RECURSIVE insert_desc(_, _)
insert_desc(x, sorted) ==
    IF sorted = <<>> THEN <<x>>
    ELSE IF StrLess(Get(Head(sorted), "created", <<>>), Get(x, "created", <<>>))
         THEN <<x>> \o sorted
         ELSE <<Head(sorted)>> \o insert_desc(x, Tail(sorted))

RECURSIVE sort_created_desc(_)
sort_created_desc(cs) ==
    IF cs = <<>> THEN <<>>
    ELSE insert_desc(cs[Len(cs)], sort_created_desc(SubSeq(cs, 1, Len(cs) - 1)))

\* The comments of lines 40-51: those whose created string parses to a date at or
\* after the cutoff, in their listed order.
RECURSIVE recent_comments_of(_, _)
recent_comments_of(comments, cutoff_date) ==
    IF comments = <<>> THEN <<>>
    ELSE LET rest == recent_comments_of(Tail(comments), cutoff_date)
         IN  IF is_recent(Get(Head(comments), "created", <<>>), cutoff_date)
             THEN <<Head(comments)>> \o rest
             ELSE rest

\* get_issue_comments after a successful fetch (lines 36-59).
get_issue_comments(comments, cutoff_date) ==
    LET recent_comments == recent_comments_of(comments, cutoff_date)
    IN  IF recent_comments # <<>>
        THEN sort_created_desc(recent_comments)[1]
        ELSE None

\* Timestamp strings of the harness: a tick, an optional fraction, a zone in the
\* three spellings the tracker and ISO 8601 use, the empty string and a string
\* that is no timestamp.
TickChars == {<<"0">>, <<"1">>, <<"2">>, <<"3">>, <<"4">>, <<"5">>, <<"6">>, <<"7">>,
              <<"8">>, <<"9">>}

TicksUpTo(n) == {t \in TickChars : DigitVal(t[1]) <= n}

FracChars == {<<>>, <<".", "5", "0", "0">>}

ZoneChars == {<<"Z">>, <<"+", "0", "0", "0", "0">>, <<"+", "0", "1", "0", "0">>}

CreatedStrings ==
    {t \o f \o z : t \in TicksUpTo(MaxTick), f \in FracChars, z \in ZoneChars}
        \cup {<<>>, <<"x">>}

Cutoffs == {t * TickUnits : t \in 0..(MaxTick + 1)} \cup {TickUnits \div 2}

\* ------------------------------------------------ harness: get_issue_comments

IdleMain ==
    /\ pc = "harness"
    /\ out = <<>>
    /\ fetches = <<>>
    /\ config = None
    /\ today = 0
    /\ cur = None

InitComments ==
    /\ IdleMain
    /\ \E cs \in SeqsUpTo(CreatedStrings, MaxComments), c \in Cutoffs :
          call = [fn |-> "get_issue_comments",
                  comments |-> [k \in 1..Len(cs) |-> [id |-> k, created |-> cs[k]]],
                  cutoff_date |-> c]
    /\ ret = [pending |-> TRUE]

CallGetIssueComments ==
    /\ ret = [pending |-> TRUE]
    /\ ret' = [value |-> get_issue_comments(call.comments, call.cutoff_date)]
    /\ UNCHANGED <<pc, out, fetches, config, today, cur, call>>

NextComments == CallGetIssueComments

SpecComments == InitComments /\ [][NextComments]_vars

\* C1: for any comment list and cutoff, get_issue_comments returns the comment with
\* the maximum creation timestamp among those created at or after the cutoff, the
\* earliest-listed one among several with that maximum, and None exactly when no
\* comment is created at or after the cutoff.
C1_Returned(r) ==
    LET cs     == call.comments
        cutoff == call.cutoff_date
        Recent == {k \in 1..Len(cs) : is_recent(cs[k].created, cutoff)}
        Latest == {k \in Recent : \A j \in Recent :
                      parsed_date(cs[j].created).value <= parsed_date(cs[k].created).value}
    IN  IF Recent = {} THEN r = None
        ELSE /\ r # None
             /\ r.id \in Latest
             /\ \A j \in Latest : r.id <= j

C1_MostRecentIsMaxTimestamp ==
    (call # None /\ call.fn = "get_issue_comments" /\ ret # [pending |-> TRUE])
        => C1_Returned(ret.value)

\* ----------------------------------------------------- get_issue_dependencies

\* "-" in key
RECURSIVE has_dash(_)
has_dash(key) ==
    IF key = <<>> THEN FALSE
    ELSE Head(key) = "-" \/ has_dash(Tail(key))

\* key.split("-")[0]
RECURSIVE split_first(_)
split_first(key) ==
    IF key = <<>> \/ Head(key) = "-" THEN <<>>
    ELSE <<Head(key)>> \o split_first(Tail(key))

\* linked_key.split("-")[0] if "-" in linked_key else ""   (line 80)
linked_project_of(linked_key) ==
    IF has_dash(linked_key) THEN split_first(linked_key) ELSE <<>>

inward_first(link) ==
    IF Truthy(Get(link, "inwardIssue", EmptyDict))
    THEN Get(link, "inwardIssue", EmptyDict)
    ELSE Get(link, "outwardIssue", EmptyDict)

\* link.get("outwardIssue") or link.get("inwardIssue")   (line 77)
linked_issue_of(link) ==
    IF Truthy(Get(link, "outwardIssue", EmptyDict))
    THEN Get(link, "outwardIssue", EmptyDict)
    ELSE Get(link, "inwardIssue", EmptyDict)

\* The dependency appended for one link (lines 84-91).
dependency_of(link, linked_issue) ==
    [key       |-> Get(linked_issue, "key", <<>>),
     project   |-> linked_project_of(Get(linked_issue, "key", <<>>)),
     link_type |-> Get(Get(link, "type", EmptyDict), "name", "Related"),
     summary   |-> Get(Get(linked_issue, "fields", EmptyDict), "summary", ""),
     status    |-> Get(Get(Get(linked_issue, "fields", EmptyDict), "status", EmptyDict),
                       "name", "Unknown")]

\* get_issue_dependencies after a successful fetch (lines 74-93).
RECURSIVE get_issue_dependencies(_, _)
get_issue_dependencies(issue_links, current_project_key) ==
    IF issue_links = <<>> THEN <<>>
    ELSE LET link           == Head(issue_links)
             linked_issue   == linked_issue_of(link)
             linked_project == linked_project_of(Get(linked_issue, "key", <<>>))
             rest == get_issue_dependencies(Tail(issue_links), current_project_key)
         IN  IF /\ Truthy(linked_issue)
                /\ linked_project # <<>>
                /\ linked_project # current_project_key
             THEN <<dependency_of(link, linked_issue)>> \o rest
             ELSE rest

\* The configured project key and the keys of the issues the tracker serves.
PROJECT_KEY == <<"P">>
KeyP1 == <<"P", "-", "1">>
KeyP2 == <<"P", "-", "2">>
KeyQ9 == <<"Q", "-", "9">>
KeyR7 == <<"R", "-", "7">>

\* Linked issues as a link embeds them: of the current project, of another project
\* with and without its fields, with a key that has no separator, with a key that
\* starts with the separator, and without a key.
LinkedIssues ==
    {[key |-> KeyP1],
     [key |-> KeyQ9, fields |-> [summary |-> "s", status |-> [name |-> "Open"]]],
     [key |-> KeyR7],
     [key |-> <<"Q", "9">>],
     [key |-> <<"-", "9">>],
     [id |-> 1]}

OutwardParts == {EmptyDict} \cup {[outwardIssue |-> x] : x \in LinkedIssues \cup {EmptyDict}}

InwardParts == {EmptyDict} \cup {[inwardIssue |-> x] : x \in LinkedIssues \cup {EmptyDict}}

IssueLinks ==
    {o @@ i : o \in OutwardParts, i \in InwardParts}
        \cup {o @@ [type |-> [name |-> "Blocks"]] : o \in OutwardParts}

\* -------------------------------------------- harness: get_issue_dependencies

InitDeps ==
    /\ IdleMain
    /\ \E ls \in SeqsUpTo(IssueLinks, MaxLinks) :
          call = [fn |-> "get_issue_dependencies", issue_links |-> ls,
                  current_project_key |-> PROJECT_KEY]
    /\ ret = [pending |-> TRUE]

CallGetIssueDependencies ==
    /\ ret = [pending |-> TRUE]
    /\ ret' = [value |-> get_issue_dependencies(call.issue_links, call.current_project_key)]
    /\ UNCHANGED <<pc, out, fetches, config, today, cur, call>>

NextDeps == CallGetIssueDependencies

SpecDeps == InitDeps /\ [][NextDeps]_vars

\* The first non-empty of a link's outward and inward issue.
C3_Chosen(link) ==
    IF "outwardIssue" \in DOMAIN link /\ link.outwardIssue # EmptyDict
    THEN link.outwardIssue
    ELSE IF "inwardIssue" \in DOMAIN link THEN link.inwardIssue ELSE EmptyDict

\* The project prefixes of a key: the non-empty text before its first separator.
C3_Prefixes(key) ==
    {SubSeq(key, 1, n - 1) : n \in {m \in 2..Len(key) :
        key[m] = "-" /\ \A j \in 1..(m - 1) : key[j] # "-"}}

\* The links that are dependencies: the chosen issue has a key with a project
\* prefix, and the prefix is not the current project.
C3_Kept(links, current) ==
    {k \in 1..Len(links) :
        /\ "key" \in DOMAIN C3_Chosen(links[k])
        /\ \E p \in C3_Prefixes(C3_Chosen(links[k]).key) : p # current}

\* C3: get_issue_dependencies returns, in link order, one dependency for each link
\* whose chosen linked issue (the first non-empty of outward, then inward) has a
\* project prefix other than the current project key, and nothing for any other
\* link; no returned dependency has the current project's prefix.
C3_CrossTeamDependencies ==
    (call # None /\ call.fn = "get_issue_dependencies" /\ ret # [pending |-> TRUE]) =>
        LET links == call.issue_links
            kept  == C3_Kept(links, call.current_project_key)
            deps  == ret.value
        IN  /\ Len(deps) = Cardinality(kept)
            /\ \A k \in kept :
                  LET n == Cardinality({j \in kept : j <= k})
                  IN  /\ deps[n].key = C3_Chosen(links[k]).key
                      /\ deps[n].project \in C3_Prefixes(deps[n].key)
            /\ \A n \in 1..Len(deps) : deps[n].project # call.current_project_key

\* A call whose links hold a same-project link that is dropped and a link with no
\* outward issue whose inward issue of another project is kept.
C3_Witness ==
    /\ call # None /\ call.fn = "get_issue_dependencies" /\ ret # [pending |-> TRUE]
    /\ Len(call.issue_links) = 2
    /\ call.issue_links[1] = [outwardIssue |-> [key |-> KeyP1]]
    /\ call.issue_links[2] = [outwardIssue |-> EmptyDict, inwardIssue |-> [key |-> KeyR7]]
    /\ Len(ret.value) = 1
    /\ ret.value[1].key = KeyR7

\* ------------------------------------------ get_gitlab_mr_stats: the diff tally

\* s.startswith(sub)
starts_with(s, sub) == Len(s) >= Len(sub) /\ SubSeq(s, 1, Len(sub)) = sub

\* str.count(sub): the occurrences of sub found scanning left to right without
\* overlap.
RECURSIVE str_count(_, _)
str_count(s, sub) ==
    IF Len(s) < Len(sub) THEN 0
    ELSE IF starts_with(s, sub)
         THEN 1 + str_count(SubSeq(s, Len(sub) + 1, Len(s)), sub)
         ELSE str_count(Tail(s), sub)

\* diff.count("\n+") - diff.count("\n+++")   (line 308)
diff_additions(diff) ==
    str_count(diff, <<"\n", "+">>) - str_count(diff, <<"\n", "+", "+", "+">>)

\* diff.count("\n-") - diff.count("\n---")   (line 309)
diff_deletions(diff) ==
    str_count(diff, <<"\n", "-">>) - str_count(diff, <<"\n", "-", "-", "-">>)

RECURSIVE sum_additions(_)
sum_additions(changes) ==
    IF changes = <<>> THEN 0
    ELSE diff_additions(Get(Head(changes), "diff", <<>>)) + sum_additions(Tail(changes))

RECURSIVE sum_deletions(_)
sum_deletions(changes) ==
    IF changes = <<>> THEN 0
    ELSE diff_deletions(Get(Head(changes), "diff", <<>>)) + sum_deletions(Tail(changes))

\* The statistics of a changes response (lines 300-315).
changes_stats(changes) ==
    [files_changed |-> Len(changes),
     additions     |-> Max(0, sum_additions(changes)),
     deletions     |-> Max(0, sum_deletions(changes))]

\* Diff texts: every text of at most MaxDiffLen characters, and three longer ones:
\* a hunk with its file headers in both orders, and a hunk behind its @@ line.
DiffChars == {"+", "-", "a", "\n"}

DiffHeadersFirst ==
    <<"-", "-", "-", "a", "\n", "+", "+", "+", "a", "\n", "+", "a", "\n", "-", "a", "\n">>

DiffHeadersMixed ==
    <<"+", "+", "+", "a", "\n", "+", "a", "\n", "-", "-", "-", "a", "\n", "-", "a">>

DiffHunk == <<"a", "\n", "+", "a", "\n", "-", "a", "\n", "+", "a">>

Diffs ==
    SeqsUpTo(DiffChars, MaxDiffLen) \cup {DiffHeadersFirst, DiffHeadersMixed, DiffHunk}

ChangedEntries == {[diff |-> d] : d \in Diffs} \cup {[new_path |-> "f"]}

\* ------------------------------------------------------ harness: the diff tally

InitDiff ==
    /\ IdleMain
    /\ \E cs \in SeqsUpTo(ChangedEntries, MaxChanges) :
          call = [fn |-> "changes_stats", changes |-> cs]
    /\ ret = [pending |-> TRUE]

CallChangesStats ==
    /\ ret = [pending |-> TRUE]
    /\ ret' = [value |-> changes_stats(call.changes)]
    /\ UNCHANGED <<pc, out, fetches, config, today, cur, call>>

NextDiff == CallChangesStats

SpecDiff == InitDiff /\ [][NextDiff]_vars

\* The lines of a diff that start with the marker c and not with c three times.
C10_MarkedLines(diff, c) ==
    {p \in 1..Len(diff) :
        /\ p = 1 \/ diff[p - 1] = "\n"
        /\ diff[p] = c
        /\ ~(p + 2 <= Len(diff) /\ diff[p + 1] = c /\ diff[p + 2] = c)}

RECURSIVE C10_Total(_, _)
C10_Total(changes, c) ==
    IF changes = <<>> THEN 0
    ELSE Cardinality(C10_MarkedLines(Get(Head(changes), "diff", <<>>), c))
            + C10_Total(Tail(changes), c)

\* C10: additions is the number of diff lines that start with '+' but not '+++',
\* deletions the number that start with '-' but not '---', summed over the changed
\* entries and never negative; files_changed is the number of changed entries.
C10_DiffCounts ==
    (call # None /\ call.fn = "changes_stats" /\ ret # [pending |-> TRUE]) =>
        /\ ret.value.files_changed = Len(call.changes)
        /\ ret.value.additions = C10_Total(call.changes, "+")
        /\ ret.value.deletions = C10_Total(call.changes, "-")
        /\ ret.value.additions >= 0 /\ ret.value.deletions >= 0

\* In the run of main(), comment text is a sequence of tokens (words, ":" and the
\* blank " ") and a hyperlink target is the sequence of the segments between its
\* slashes.

\* ------------------------------------------------------------ comment text

\* str.lower() of a token.
Lower(tok) ==
    CASE tok = "Merge"       -> "merge"
      [] tok = "Request"     -> "request"
      [] tok = "Jira-GitLab" -> "jira-gitlab"
      [] OTHER               -> tok

\* "jira-gitlab" in author_name.lower()   (lines 182, 460)
is_bot_author(author_name) ==
    \E k \in 1..Len(author_name) : Lower(author_name[k]) = "jira-gitlab"

\* "merge request" in comment_text.lower()   (lines 185, 460)
mentions_merge_request(comment_text) ==
    \E k \in 1..(Len(comment_text) - 1) :
        Lower(comment_text[k]) = "merge" /\ Lower(comment_text[k + 1]) = "request"

\* str.strip(): the text without its leading and trailing blanks.
RECURSIVE lstrip(_)
lstrip(text) ==
    IF text # <<>> /\ Head(text) = " " THEN lstrip(Tail(text)) ELSE text

RECURSIVE rstrip(_)
rstrip(text) ==
    IF text # <<>> /\ text[Len(text)] = " "
    THEN rstrip(SubSeq(text, 1, Len(text) - 1))
    ELSE text

strip(text) == rstrip(lstrip(text))

\* re.search(r'merge request of ([^:]+?) on branch', text): the matches as
\* <<start, end of group>>; the search returns the leftmost start with the
\* shortest group. The pattern is case-sensitive.
project_matches(text) ==
    {p \in (1..Len(text)) \X (1..Len(text)) :
        /\ p[1] + 2 <= Len(text)
        /\ text[p[1]] = "merge" /\ text[p[1] + 1] = "request" /\ text[p[1] + 2] = "of"
        /\ p[2] >= p[1] + 3 /\ p[2] + 2 <= Len(text)
        /\ \A j \in (p[1] + 3)..p[2] : text[j] # ":"
        /\ text[p[2] + 1] = "on" /\ text[p[2] + 2] = "branch"}

\* re.search(r'on branch ([^:]+):', text): the group runs to the first colon.
branch_matches(text) ==
    {p \in (1..Len(text)) \X (1..Len(text)) :
        /\ p[1] + 1 <= Len(text)
        /\ text[p[1]] = "on" /\ text[p[1] + 1] = "branch"
        /\ p[2] >= p[1] + 2 /\ p[2] + 1 <= Len(text)
        /\ \A j \in (p[1] + 2)..p[2] : text[j] # ":"
        /\ text[p[2] + 1] = ":"}

first_match(matches) ==
    CHOOSE p \in matches : \A q \in matches :
        p[1] < q[1] \/ (p[1] = q[1] /\ p[2] <= q[2])

\* project_match.group(1).strip()
project_group(text) ==
    LET p == first_match(project_matches(text))
    IN  strip(SubSeq(text, p[1] + 3, p[2]))

\* branch_match.group(1).strip()
branch_group(text) ==
    LET p == first_match(branch_matches(text))
    IN  strip(SubSeq(text, p[1] + 2, p[2]))

\* project_match and branch_match   (lines 194, 205, 349)
identity_parses(text) == project_matches(text) # {} /\ branch_matches(text) # {}

\* ------------------------------------------------------------ printed lines

\* The project and branch of an MR line, when both parse.
identity_part(text) ==
    IF identity_parses(text)
    THEN [project |-> project_group(text), branch |-> branch_group(text)]
    ELSE EmptyDict

\* A formatter that looks for project and branch before it looks at the link.
identity_before_link(comment_text, author_name, gitlab_mr_url) ==
    IF ~is_bot_author(author_name) THEN None
    ELSE IF ~mentions_merge_request(comment_text) THEN None
    ELSE IF identity_parses(comment_text)
         THEN [kind |-> "MR"] @@ identity_part(comment_text)
    ELSE IF gitlab_mr_url # <<>>
         THEN [kind |-> "MR", url |-> gitlab_mr_url]
    ELSE [kind |-> "MR", generic |-> TRUE]

\* format_gitlab_mr_comment (lines 177-214): None, or the line "MR: ..." as the
\* parts it is made of.
format_gitlab_mr_comment(comment_text, author_name, gitlab_mr_url) ==
    IF ~is_bot_author(author_name) THEN None
    ELSE IF ~mentions_merge_request(comment_text) THEN None
    ELSE IF gitlab_mr_url # <<>>
         THEN [kind |-> "MR", url |-> gitlab_mr_url] @@ identity_part(comment_text)
    ELSE IF identity_parses(comment_text)
         THEN [kind |-> "MR"] @@ identity_part(comment_text)
    ELSE [kind |-> "MR", generic |-> TRUE]

\* A URL is the sequence of what its slashes separate: the scheme, the network
\* location, and the segments of the path, the last of which carries the query
\* when there is one. An empty segment stands between two adjacent slashes and
\* behind a trailing one.

\* "cd.splunkdev.com" in token: the host, also with a port behind it.
contains_gitlab_host(token) == token \in {"cd.splunkdev.com", "cd.splunkdev.com:443"}

\* "merge_requests" in token, also with a query behind it.
contains_merge_requests(token) == token \in {"merge_requests", "merge_requests?x=1"}

\* What urlparse leaves of a segment in .path: the query is cut off.
url_path_part(token) ==
    CASE token = "7?x=1"              -> "7"
      [] token = "merge_requests?x=1" -> "merge_requests"
      [] OTHER                        -> token

\* "cd.splunkdev.com" in href   (lines 222, 452)
has_gitlab_host(href) == \E k \in 1..Len(href) : contains_gitlab_host(href[k])

\* "merge_requests" in href   (line 452)
has_merge_requests(href) == \E k \in 1..Len(href) : contains_merge_requests(href[k])

\* path.strip('/') on the segments: the empty ones at both ends go.
RECURSIVE strip_slashes(_)
strip_slashes(parts) ==
    IF parts = <<>> THEN <<>>
    ELSE IF Head(parts) = "" THEN strip_slashes(Tail(parts))
    ELSE IF parts[Len(parts)] = "" THEN strip_slashes(SubSeq(parts, 1, Len(parts) - 1))
    ELSE parts

\* urlparse(gitlab_url).path.strip('/').split('/')   (lines 227-228): the split
\* of an empty path is one empty segment.
path_parts_of(gitlab_url) ==
    LET path     == [k \in 1..(Len(gitlab_url) - 2) |-> url_path_part(gitlab_url[k + 2])]
        stripped == strip_slashes(IF Len(gitlab_url) > 2 THEN path ELSE <<>>)
    IN  IF stripped = <<>> THEN <<"">> ELSE stripped

\* The segments of a list before its first "-"   (lines 236-240).
RECURSIVE parts_before_dash(_)
parts_before_dash(parts) ==
    IF parts = <<>> \/ Head(parts) = "-" THEN <<>>
    ELSE <<Head(parts)>> \o parts_before_dash(Tail(parts))

\* extract_gitlab_mr_info (lines 216-246): the project path and MR id of a URL,
\* None for (None, None).
extract_gitlab_mr_info(gitlab_url) ==
    IF gitlab_url = <<>> \/ ~has_gitlab_host(gitlab_url) THEN None
    ELSE LET path_parts == path_parts_of(gitlab_url)
             Found == {k \in 1..Len(path_parts) : path_parts[k] = "merge_requests"}
         IN  IF Found = {} THEN None
             ELSE LET mr_index == CHOOSE k \in Found : \A j \in Found : k <= j
                  IN  IF mr_index + 1 <= Len(path_parts)
                      THEN [project_path |-> parts_before_dash(path_parts),
                            mr_id |-> path_parts[mr_index + 1]]
                      ELSE None

\* The guard of get_gitlab_mr_stats (lines 253-255): a request is made.
mr_is_addressable(gitlab_url) ==
    /\ extract_gitlab_mr_info(gitlab_url) # None
    /\ extract_gitlab_mr_info(gitlab_url).project_path # <<>>
    /\ extract_gitlab_mr_info(gitlab_url).mr_id # ""

\* stats_info of format_gitlab_mr_with_stats (lines 340-343, 352).
stats_info(stats) ==
    [state     |-> Get(stats, "state", "unknown"),
     files     |-> Get(stats, "files_changed", 0),
     additions |-> Get(stats, "additions", 0),
     deletions |-> Get(stats, "deletions", 0)]

\* format_gitlab_mr_with_stats (lines 324-356) given what get_gitlab_mr_stats
\* returned: None, a dict with "error", or the statistics.
format_gitlab_mr_with_stats(comment_text, author_name, gitlab_mr_url, stats) ==
    LET basic_format == format_gitlab_mr_comment(comment_text, author_name, gitlab_mr_url)
    IN  IF basic_format = None \/ gitlab_mr_url = <<>> THEN basic_format
        ELSE IF stats = None \/ "error" \in DOMAIN stats THEN basic_format
        ELSE [kind |-> "MR", stats |-> stats_info(stats), url |-> gitlab_mr_url]
                @@ identity_part(comment_text)

\* " files, +" in gitlab_mr_text   (line 465): the text of stats_info.
has_files_marker(gitlab_mr_text) == "stats" \in DOMAIN gitlab_mr_text

\* ----------------------------------------------- comment body (lines 433-455)

\* The text a text node adds and the link its marks leave in gitlab_mr_url.
RECURSIVE marks_link(_, _)
marks_link(marks, gitlab_mr_url) ==
    IF marks = <<>> THEN gitlab_mr_url
    ELSE LET mark == Head(marks)
             href == Get(Get(mark, "attrs", EmptyDict), "href", <<>>)
         IN  IF /\ Get(mark, "type", "") = "link"
                /\ has_gitlab_host(href) /\ has_merge_requests(href)
             THEN marks_link(Tail(marks), href)
             ELSE marks_link(Tail(marks), gitlab_mr_url)

RECURSIVE paragraph_extract(_, _)
paragraph_extract(nodes, acc) ==
    IF nodes = <<>> THEN acc
    ELSE LET text_node == Head(nodes)
         IN  IF Get(text_node, "type", "") = "text"
             THEN paragraph_extract(Tail(nodes),
                    [comment_text  |-> acc.comment_text \o Get(text_node, "text", <<>>),
                     gitlab_mr_url |-> marks_link(Get(text_node, "marks", <<>>),
                                                  acc.gitlab_mr_url)])
             ELSE paragraph_extract(Tail(nodes), acc)

RECURSIVE content_extract(_, _)
content_extract(content, acc) ==
    IF content = <<>> THEN acc
    ELSE LET block == Head(content)
         IN  IF Get(block, "type", "") = "paragraph"
             THEN content_extract(Tail(content),
                                  paragraph_extract(Get(block, "content", <<>>), acc))
             ELSE content_extract(Tail(content), acc)

\* comment_text and gitlab_mr_url of a comment body: a document (a dict) is walked,
\* any other body, modelled as [str |-> text], is its str().
extract_body(comment_body) ==
    IF "str" \in DOMAIN comment_body
    THEN [comment_text |-> comment_body.str, gitlab_mr_url |-> <<>>]
    ELSE content_extract(Get(comment_body, "content", <<>>),
                         [comment_text |-> <<>>, gitlab_mr_url |-> <<>>])

\* ------------------------------------------------------ get_dependency_changes

\* A gate that asks for a date that parses and does not compare it.
gate_without_cutoff(issue_data, cutoff_date) ==
    parsed_date(Get(Get(issue_data, "fields", EmptyDict), "updated", <<>>)) # None

\* The staleness gate (lines 109-118): the issue's updated string parses to a date
\* at or after the cutoff; an empty or unparsable string returns None as well.
passes_updated_gate(issue_data, cutoff_date) ==
    is_recent(Get(Get(issue_data, "fields", EmptyDict), "updated", <<>>), cutoff_date)

\* a or 'Unassigned'
or_unassigned(v) == IF v = "" THEN "Unassigned" ELSE v

\* The description of one changelog item (lines 134-147), <<>> when the field is
\* not one of those reported.
describe_item(item) ==
    LET field      == Get(item, "field", "")
        from_value == Get(item, "fromString", "")
        to_value   == Get(item, "toString", "")
    IN  IF field = "status"
        THEN <<[text |-> "Status", from |-> from_value, to |-> to_value]>>
        ELSE IF field = "assignee"
        THEN <<[text |-> "Assignee", from |-> or_unassigned(from_value),
                to |-> or_unassigned(to_value)]>>
        ELSE IF field = "summary" THEN <<[text |-> "Summary updated"]>>
        ELSE IF field = "description" THEN <<[text |-> "Description updated"]>>
        ELSE IF field \in {"priority", "Priority"}
        THEN <<[text |-> "Priority", from |-> from_value, to |-> to_value]>>
        ELSE <<>>

RECURSIVE describe_items(_)
describe_items(items) ==
    IF items = <<>> THEN <<>>
    ELSE describe_item(Head(items)) \o describe_items(Tail(items))

\* The changelog scan (lines 120-149).
RECURSIVE scan_histories(_, _)
scan_histories(histories, cutoff_date) ==
    IF histories = <<>> THEN <<>>
    ELSE LET history == Head(histories)
             rest    == scan_histories(Tail(histories), cutoff_date)
         IN  IF is_recent(Get(history, "created", <<>>), cutoff_date)
             THEN describe_items(Get(history, "items", <<>>)) \o rest
             ELSE rest

\* recent_comments of lines 158-167.
count_recent(comments, cutoff_date) == Len(recent_comments_of(comments, cutoff_date))

\* A tally of comments that is never reported.
no_comments_entry(n) == <<>>

\* The "N new comment(s)" entry of lines 169-170.
new_comments_entry(n) ==
    IF n > 0 THEN <<[text |-> "new comments", count |-> n, plural |-> n > 1]>> ELSE <<>>

\* ------------------------------------------------------- get_comment_cutoff_date

\* timedelta(days=n) in the units of a timestamp: a tick is a day.
timedelta(days) == days * TickUnits

\* A weekday numbered from Monday = 1, as datetime.isoweekday() numbers it.
isoweekday(now) == ((now \div TickUnits) % 7) + 1

\* datetime.weekday() of a date-time: 0 is Monday, and day 0 is a Monday.
weekday(now) == (now \div TickUnits) % 7

\* get_comment_cutoff_date (lines 14-25) for today = datetime.now().
get_comment_cutoff_date(now) ==
    IF weekday(now) = 0 THEN now - timedelta(3) ELSE now - timedelta(1)

\* ---------------------------------------- harness: get_comment_cutoff_date

\* The date-times of the call: two weeks of days, each at midnight, just after it,
\* at noon and just before the next midnight.
DayParts == {0, 1, TickUnits \div 2, TickUnits - 1}

Nows == {timedelta(day) + part : day \in 0..MaxDay, part \in DayParts}

InitCutoff ==
    /\ IdleMain
    /\ \E now \in Nows : call = [fn |-> "get_comment_cutoff_date", now |-> now]
    /\ ret = [pending |-> TRUE]

CallGetCommentCutoffDate ==
    /\ ret = [pending |-> TRUE]
    /\ ret' = [value |-> get_comment_cutoff_date(call.now)]
    /\ UNCHANGED <<pc, out, fetches, config, today, cur, call>>

NextCutoff == CallGetCommentCutoffDate

SpecCutoff == InitCutoff /\ [][NextCutoff]_vars

\* The day of a date-time and the weekdays counted from the Monday of day 0.
C11_Day(now) == CHOOSE day \in 0..(MaxDay + 1) :
                    timedelta(day) <= now /\ now < timedelta(day + 1)

C11_Mondays == {day \in 0..(MaxDay + 1) : \E week \in 0..MaxDay : day = 7 * week}

\* C11: for every date-time now, get_comment_cutoff_date returns exactly now minus
\* three days when now falls on a Monday and exactly now minus one day on each of
\* the other six weekdays.
C11_CutoffByWeekday ==
    (call # None /\ call.fn = "get_comment_cutoff_date" /\ ret # [pending |-> TRUE]) =>
        IF C11_Day(call.now) \in C11_Mondays
        THEN ret.value + 3 * TickUnits = call.now
        ELSE ret.value + TickUnits = call.now

\* The call was made on the second Monday at noon and returned the Friday noon.
C11_Witness ==
    /\ call # None /\ call.fn = "get_comment_cutoff_date"
    /\ call.now = 7 * TickUnits + TickUnits \div 2
    /\ ret = [value |-> 4 * TickUnits + TickUnits \div 2]

\* ------------------------------------------------------------------ HTTP

\* A status check that raises for server errors only.
raise_for_server_error(status) == status >= 500 /\ status < 600

\* Response.raise_for_status(): HTTPError for a 4xx or 5xx status.
raise_for_status(status) == status >= 400 /\ status < 600

\* A response: its status (0: requests.get raised a ConnectionError and there is
\* none), its JSON body, and whether response.json() raises on it.
Response(status, json) == [status |-> status, json |-> json, unparsable |-> FALSE]

Ok(json) == Response(200, json)

ConnectionFailure == Response(0, EmptyDict)

Unparsable == [status |-> 200, json |-> EmptyDict, unparsable |-> TRUE]

\* A primary fetch raises (lines 33-36, 68-71, 379-381, 389-391, 406-408): the
\* request fails, raise_for_status() raises, or json() does.
primary_raises(resp) ==
    resp.status = 0 \/ raise_for_status(resp.status) \/ resp.unparsable

\* What a failing fetch of get_dependency_changes raises is a RequestException
\* (ConnectionError, HTTPError, and the JSONDecodeError of requests 2.27 and
\* later), which line 174 catches.
dependency_fetch_raises(resp) ==
    resp.status = 0 \/ raise_for_status(resp.status) \/ resp.unparsable

\* get_gitlab_mr_stats on the MR response (lines 268-281, 319-322): the error it
\* returns, "" when the response is read. The JSONDecodeError that json() raises
\* on an unreadable body is a RequestException (requests 2.27 and later), which
\* line 319 catches.
mr_response_error(resp, gitlab_token) ==
    IF resp.status = 0 THEN "Failed to connect to GitLab API"
    ELSE IF resp.status = 401 THEN "GitLab API authentication required"
    ELSE IF resp.status = 404
         THEN IF gitlab_token = "" THEN "GitLab token required for MR statistics"
              ELSE "MR not found"
    ELSE IF resp.status # 200 THEN "GitLab API error"
    ELSE IF resp.unparsable THEN "Failed to connect to GitLab API"
    ELSE ""

\* stats of lines 287-296: the fields of the MR the report reads.
mr_stats_of(mr_data) == [state |-> Get(mr_data, "state", "")]

\* get_gitlab_mr_stats on the changes response (lines 285, 298-322).
stats_after_changes(stats, resp) ==
    IF resp.status = 0 THEN [error |-> "Failed to connect to GitLab API"]
    ELSE IF resp.status # 200 THEN stats
    ELSE IF resp.unparsable THEN [error |-> "Failed to connect to GitLab API"]
    ELSE stats @@ changes_stats(Get(resp.json, "changes", <<>>))

\* ------------------------------------------------------------- the tracker

\* The day of the run: a Monday and a Tuesday.
Todays == {7, 8}

\* A timestamp as the tracker writes it: tick, milliseconds, numeric offset.
Stamp(tick) == <<tick, ".", "0", "0", "0", "+", "0", "0", "0", "0">>

\* Before every cutoff, after the Monday cutoff only, after every cutoff.
Old == Stamp("3")
Mid == Stamp("6")
New == Stamp("8")

UrlMr == <<"https:", "cd.splunkdev.com", "grp", "proj", "-", "merge_requests", "7">>
UrlMrNoId == <<"https:", "cd.splunkdev.com", "grp", "proj", "-", "merge_requests">>
UrlOther == <<"https:", "example.com", "doc">>

TextHuman == <<"fixed", "it">>
TextMr == <<"a", "merge", "request", "of", "proj", "on", "branch", "feat", ":", "title">>
TextMrCaps == <<"Merge", "Request", "opened">>
TextPipeline == <<"pipeline", "passed">>

Human == [displayName |-> <<"Alice">>]
Bot == [displayName |-> <<"Jira-GitLab", "Integration">>]

TextNode(text) == [type |-> "text", text |-> text]
LinkNode(text, href) ==
    [type |-> "text", text |-> text,
     marks |-> <<[type |-> "link", attrs |-> [href |-> href]]>>]
Doc(nodes) == [type |-> "doc", content |-> <<[type |-> "paragraph", content |-> nodes]>>]

Comment(id, created, author, body) ==
    [id |-> id, created |-> created, author |-> author, body |-> body]

\* The comment lists the tracker may hold for the first issue: none, old ones, a
\* person's, the bot's with and without link and identity, one without text.
RichComments ==
    {<<>>,
     <<Comment(1, Old, Human, Doc(<<TextNode(TextHuman)>>))>>,
     <<Comment(1, Old, Bot, Doc(<<LinkNode(TextMr, UrlMr)>>)),
       Comment(2, New, Human, Doc(<<TextNode(TextHuman)>>))>>,
     <<Comment(1, Mid, Human, [str |-> TextHuman])>>,
     <<Comment(1, New, Bot, Doc(<<LinkNode(TextMr, UrlMr)>>))>>,
     <<Comment(1, New, Bot, Doc(<<LinkNode(TextMrCaps, UrlMr)>>))>>,
     <<Comment(1, New, Bot, Doc(<<TextNode(TextMr), LinkNode(<<"docs">>, UrlOther)>>))>>,
     <<Comment(1, New, Bot, Doc(<<TextNode(TextMrCaps)>>))>>,
     <<Comment(1, New, Bot, Doc(<<LinkNode(TextMr, UrlMrNoId)>>))>>,
     <<Comment(1, New, Bot, Doc(<<TextNode(TextPipeline)>>))>>,
     <<Comment(1, New, Human, Doc(<<TextNode(TextMr)>>))>>,
     <<Comment(1, New, Human, Doc(<<TextNode(<<" ">>)>>))>>}

QuietComments ==
    {<<>>, <<Comment(1, New, Human, Doc(<<TextNode(TextHuman)>>))>>}

CommentsOf(issue_key) == IF issue_key = KeyP1 THEN RichComments ELSE QuietComments

LinkTo(issue) == [type |-> [name |-> "Blocks"], outwardIssue |-> issue]

IssueQ9 == [key |-> KeyQ9, fields |-> [summary |-> "s", status |-> [name |-> "Open"]]]
IssueR7 == [key |-> KeyR7, fields |-> [summary |-> "r", status |-> [name |-> "Done"]]]

LinksOf(issue_key) ==
    IF issue_key = KeyP1
    THEN {<<>>,
          <<LinkTo([key |-> KeyP2]), LinkTo(IssueQ9)>>,
          <<LinkTo(IssueQ9), [inwardIssue |-> IssueR7]>>}
    ELSE {<<>>, <<LinkTo(IssueR7)>>}

StatusItem == [field |-> "status", fromString |-> "Open", toString |-> "Done"]
LabelsItem == [field |-> "labels", fromString |-> "", toString |-> "x"]

DepIssue(updated, histories) ==
    [fields |-> [updated |-> updated], changelog |-> [histories |-> histories]]

\* What the tracker may hold for a dependency: not updated since the cutoff though
\* its changelog has a batch after it, updated with a reported change, updated
\* with none.
DepIssuesOf(dependency_key) ==
    IF dependency_key = KeyQ9
    THEN {DepIssue(Old, <<[created |-> New, items |-> <<StatusItem>>]>>),
          DepIssue(New, <<[created |-> Old, items |-> <<StatusItem>>],
                          [created |-> New, items |-> <<LabelsItem, StatusItem>>]>>),
          DepIssue(New, <<[created |-> New, items |-> <<LabelsItem>>]>>)}
    ELSE {DepIssue(New, <<[created |-> New, items |-> <<StatusItem>>]>>)}

DepCommentsOf(dependency_key) ==
    IF dependency_key = KeyQ9
    THEN {<<>>,
          <<[id |-> 1, created |-> Old], [id |-> 2, created |-> New],
            [id |-> 3, created |-> New]>>}
    ELSE {<<>>}

Sprint42 == [id |-> 42, name |-> "Sprint 42", state |-> "active"]
Sprint43 == [id |-> 43, name |-> "Sprint 43", state |-> "active"]
Sprint41 == [id |-> 41, name |-> "Sprint 41", state |-> "closed"]
Sprint44 == [id |-> 44, name |-> "Sprint 44", state |-> "future"]

\* The boards: no sprint at all, a short board with no active sprint, and a board
\* of more sprints than a page whose last page holds two active sprints behind a
\* closed one, an active sprint without id, or no active sprint.
SprintTotals == {0, 2, 60}

SprintPagesOf(no_sprints) ==
    IF no_sprints = 0 THEN {<<>>}
    ELSE IF no_sprints = 2 THEN {<<Sprint41, Sprint44>>}
    ELSE {<<Sprint41, Sprint42, Sprint43, Sprint44>>,
          <<Sprint41, [name |-> "Sprint 45", state |-> "active"]>>,
          <<Sprint41, Sprint41, Sprint44>>}

Alice == [assignee |-> "alice", display_name |-> "Alice"]
Bob == [assignee |-> "bob", display_name |-> "Bob"]

\* The engineers of the configuration, with and without gitlab_token.
Configs ==
    {[engineers |-> es] @@ t :
        es \in {<<Alice>>, <<Alice, Bob>>}, t \in {EmptyDict, [gitlab_token |-> "glpat"]}}

\* The issues the search returns for an engineer.
IssuesOf(assignee) ==
    IF assignee = "alice"
    THEN {<<>>, <<[key |-> KeyP1]>>}
    ELSE {<<>>, <<[id |-> 7], [key |-> KeyP2]>>}

\* The outcomes of a fetch the run depends on: the payloads, one payload under a
\* status of the 3xx range that requests hands back (300 Multiple Choices), or a
\* failure.
PrimaryResponses(payloads, multiple) ==
    {Ok(p) : p \in payloads}
        \cup {Response(300, multiple)}
        \cup {Response(404, EmptyDict), Response(500, EmptyDict), ConnectionFailure}

\* ------------------------------------------- harness: comment body extraction

UrlMr8 == <<"https:", "cd.splunkdev.com", "grp", "proj", "-", "merge_requests", "8">>
UrlHostInPath == <<"https:", "example.com", "cd.splunkdev.com", "merge_requests", "1">>

LinkMark(href) == [type |-> "link", attrs |-> [href |-> href]]

\* The nodes of a paragraph: plain text, text linked to one MR, to another, to
\* another site, to a site whose path names the host and the indicator, text with
\* several marks, and a node that is not text.
BodyNodes ==
    {TextNode(<<"a">>),
     LinkNode(<<"b">>, UrlMr),
     LinkNode(<<"c">>, UrlMr8),
     LinkNode(<<"d">>, UrlOther),
     LinkNode(<<"e">>, UrlHostInPath),
     [type |-> "text", text |-> <<"f">>,
      marks |-> <<[type |-> "strong"], LinkMark(UrlMr8), LinkMark(UrlMr)>>],
     [type |-> "mention", text |-> <<"m">>, marks |-> <<LinkMark(UrlMr8)>>]}

Paragraph(nodes) == [type |-> "paragraph", content |-> nodes]

CodeBlock == [type |-> "codeBlock", content |-> <<LinkNode(<<"x">>, UrlMr8)>>]

\* The documents: empty, one paragraph, a paragraph before or behind a block that
\* is none, and two paragraphs.
BodyDocs ==
    LET Long == SeqsUpTo(BodyNodes, MaxNodes)
        Lead == SeqsUpTo(BodyNodes, MaxLeadNodes)
    IN  {<<>>}
            \cup {<<Paragraph(n)>> : n \in Long}
            \cup {<<CodeBlock, Paragraph(n)>> : n \in Long}
            \cup {<<Paragraph(n), CodeBlock>> : n \in Long}
            \cup {<<Paragraph(l), Paragraph(n)>> : l \in Lead, n \in Long}

InitBody ==
    /\ IdleMain
    /\ \E content \in BodyDocs :
          call = [fn |-> "extract_body",
                  comment_body |-> [type |-> "doc", content |-> content]]
    /\ ret = [pending |-> TRUE]

CallExtractBody ==
    /\ ret = [pending |-> TRUE]
    /\ ret' = [value |-> extract_body(call.comment_body)]
    /\ UNCHANGED <<pc, out, fetches, config, today, cur, call>>

NextBody == CallExtractBody

SpecBody == InitBody /\ [][NextBody]_vars

\* The text nodes inside the paragraph blocks of a document, in document order.
RECURSIVE C12_Flatten(_)
C12_Flatten(seqs) ==
    IF seqs = <<>> THEN <<>> ELSE Head(seqs) \o C12_Flatten(Tail(seqs))

C12_TextNodes(content) ==
    C12_Flatten([k \in 1..Len(content) |->
        IF content[k].type = "paragraph"
        THEN SelectSeq(content[k].content, LAMBDA node : node.type = "text")
        ELSE <<>>])

\* The hyperlink targets of these nodes, in document order.
C12_Hrefs(content) ==
    LET nodes == C12_TextNodes(content)
    IN  C12_Flatten([k \in 1..Len(nodes) |->
            IF "marks" \in DOMAIN nodes[k]
            THEN LET links == SelectSeq(nodes[k].marks, LAMBDA mark : mark.type = "link")
                 IN  [j \in 1..Len(links) |-> links[j].attrs.href]
            ELSE <<>>])

C12_Text(content) ==
    LET nodes == C12_TextNodes(content)
    IN  C12_Flatten([k \in 1..Len(nodes) |-> nodes[k].text])

\* A target whose host (what follows the scheme) is the source-control host and
\* whose path holds the merge-request indicator.
C12_HostAndPath(href) ==
    /\ Len(href) >= 3 /\ href[2] = "cd.splunkdev.com"
    /\ \E k \in 3..Len(href) : href[k] = "merge_requests"

C12_Called ==
    call # None /\ call.fn = "extract_body" /\ ret # [pending |-> TRUE]

\* C12 as stated: the text is the concatenation, in document order, of the text of
\* every text node inside paragraph blocks, and the link is the first hyperlink
\* target, in document order, with the source-control host and the merge-request
\* indicator in its path; later ones never replace it.
C12_FirstLink_AsStated ==
    C12_Called =>
        LET hrefs == C12_Hrefs(call.comment_body.content)
            Match == {k \in 1..Len(hrefs) : C12_HostAndPath(hrefs[k])}
        IN  /\ ret.value.comment_text = C12_Text(call.comment_body.content)
            /\ ret.value.gitlab_mr_url =
                  (IF Match = {} THEN <<>>
                   ELSE hrefs[CHOOSE k \in Match : \A j \in Match : k <= j])

\* ------------------------------------------------------------------- main()

GITLAB_TOKEN == Get(config, "gitlab_token", "")

max_results == 50

\* main()'s locals before the first fetch.
InitialLocals ==
    [no_sprints |-> 0, active_sprint |-> None, comment_cutoff_date |-> 0,
     e |-> 0, issues |-> <<>>, i |-> 0,
     recent_comment |-> None, comment_text |-> <<>>, gitlab_mr_url |-> <<>>,
     author_name |-> <<>>, stats |-> None,
     dependencies |-> <<>>, d |-> 0, found |-> <<>>, changes |-> <<>>, error |-> ""]

InitMain ==
    /\ pc = "get_number_of_sprints"
    /\ out = <<>>
    /\ fetches = <<>>
    /\ config \in Configs
    /\ today \in Todays
    /\ cur = InitialLocals
    /\ call = None
    /\ ret = None

\* The exception a failed primary fetch raises out of main().
error_of(resp) ==
    IF resp.status = 0 THEN "ConnectionError"
    ELSE IF raise_for_status(resp.status) THEN "HTTPError"
    ELSE "JSONDecodeError"

\* The locals that the next issue, dependency or engineer assigns before reading
\* them are cleared when the loop moves on.
forget_comment(c) ==
    [c EXCEPT !.recent_comment = None, !.comment_text = <<>>, !.gitlab_mr_url = <<>>,
              !.author_name = <<>>, !.stats = None]

forget_issue(c) ==
    [forget_comment(c) EXCEPT !.dependencies = <<>>, !.d = 0, !.found = <<>>,
                              !.changes = <<>>]

\* The first issue at or after position from that has a key (lines 424-426), 0
\* when there is none.
next_keyed(issues, from) ==
    LET Keyed == {k \in from..Len(issues) : Get(issues[k], "key", <<>>) # <<>>}
    IN  IF Keyed = {} THEN 0 ELSE CHOOSE k \in Keyed : \A j \in Keyed : k <= j

\* The loop of lines 419-481 from issue position from of the current engineer:
\* the browse link of the next issue and on to its comments; past the last issue
\* the blank line, and on to the next engineer or the end.
enter_issue(c, o, from) ==
    LET k == next_keyed(c.issues, from)
    IN  IF k # 0
        THEN [pc  |-> "get_issue_comments",
              cur |-> [forget_issue(c) EXCEPT !.i = k],
              out |-> Append(o, [kind |-> "browse", key |-> c.issues[k].key])]
        ELSE IF c.e < Len(config.engineers)
        THEN [pc  |-> "get_issues_for_engineer",
              cur |-> [forget_issue(c) EXCEPT !.e = c.e + 1, !.issues = <<>>, !.i = 0],
              out |-> Append(o, [kind |-> "blank"])]
        ELSE [pc  |-> "done",
              cur |-> [forget_issue(c) EXCEPT !.issues = <<>>, !.i = 0],
              out |-> Append(o, [kind |-> "blank"])]

\* The loop of lines 474-477 from dependency position from of the current issue.
enter_dependency(c, o, from) ==
    IF from <= Len(c.dependencies)
    THEN [pc |-> "get_dependency_changes", cur |-> [c EXCEPT !.d = from], out |-> o]
    ELSE enter_issue(c, o, c.i + 1)

Goto(nx) == pc' = nx.pc /\ cur' = nx.cur /\ out' = nx.out

Raise(resp) ==
    /\ pc' = "raised"
    /\ cur' = [cur EXCEPT !.error = error_of(resp)]
    /\ out' = out

\* The first sprint of the page that is not closed.
first_unclosed(sprints) ==
    LET Open == {k \in 1..Len(sprints) : Get(sprints[k], "state", "") # "closed"}
    IN  IF Open = {} THEN None
        ELSE sprints[CHOOSE k \in Open : \A j \in Open : k <= j]

\* The first sprint of the page whose state is active (lines 392-395).
first_active(sprints) ==
    LET Active == {k \in 1..Len(sprints) : Get(sprints[k], "state", "") = "active"}
    IN  IF Active = {} THEN None
        ELSE sprints[CHOOSE k \in Active : \A j \in Active : k <= j]

\* get_number_of_sprints (lines 376-382).
GetNumberOfSprints ==
    /\ pc = "get_number_of_sprints"
    /\ \E resp \in PrimaryResponses({[total |-> t] : t \in SprintTotals}, [total |-> 2]) :
          /\ fetches' = Append(fetches, [what |-> "sprint_count", maxResults |-> 1,
                                         resp |-> resp])
          /\ IF primary_raises(resp) THEN Raise(resp)
             ELSE /\ pc' = "get_active_sprint"
                  /\ cur' = [cur EXCEPT !.no_sprints = Get(resp.json, "total", 0)]
                  /\ out' = out
    /\ UNCHANGED <<config, today, call, ret>>

\* get_active_sprint from its own request (lines 388-395), and lines 410-418 of
\* main(): the message and the end when no active sprint with an id is found,
\* else the cutoff, the sprint's name and the first engineer.
GetActiveSprint ==
    /\ pc = "get_active_sprint"
    /\ \E resp \in PrimaryResponses({[values |-> v] : v \in SprintPagesOf(cur.no_sprints)},
                                      [values |-> <<Sprint41, Sprint44>>]) :
          /\ fetches' = Append(fetches,
                [what |-> "sprint_page", startAt |-> Max(0, cur.no_sprints - max_results),
                 maxResults |-> max_results, resp |-> resp])
          /\ IF primary_raises(resp) THEN Raise(resp)
             ELSE LET active_sprint == first_active(Get(resp.json, "values", <<>>))
                      c == [cur EXCEPT !.no_sprints = 0]
                  IN  IF active_sprint = None \/ Get(active_sprint, "id", 0) = 0
                      THEN /\ pc' = "done"
                           /\ cur' = c
                           /\ out' = Append(out, [kind |-> "no_active_sprint"])
                      ELSE /\ pc' = "get_issues_for_engineer"
                           /\ cur' = [c EXCEPT !.active_sprint = active_sprint,
                                        !.comment_cutoff_date = get_comment_cutoff_date(timedelta(today)),
                                        !.e = 1]
                           /\ out' = Append(out, [kind |-> "sprint",
                                                  name |-> active_sprint.name])
    /\ UNCHANGED <<config, today, call, ret>>

\* get_issues_for_engineer (lines 397-408) and lines 420-427: the engineer's name,
\* then the first issue.
GetIssuesForEngineer ==
    /\ pc = "get_issues_for_engineer"
    /\ LET engineer == config.engineers[cur.e]
       IN  \E resp \in PrimaryResponses({[issues |-> x] : x \in IssuesOf(engineer.assignee)},
                                             [issues |-> <<>>]) :
              /\ fetches' = Append(fetches,
                    [what |-> "search", assignee |-> engineer.assignee,
                     sprint |-> cur.active_sprint.id, resp |-> resp])
              /\ IF primary_raises(resp) THEN Raise(resp)
                 ELSE Goto(enter_issue(
                        [cur EXCEPT !.issues = Get(resp.json, "issues", <<>>)],
                        Append(out, [kind |-> "engineer", name |-> engineer.display_name]),
                        1))
    /\ UNCHANGED <<config, today, call, ret>>

\* The MR line with the hint tied to the error of the statistics request.
print_mr_hint_on_error(c, o, stats) ==
    LET gitlab_mr_text ==
            format_gitlab_mr_with_stats(c.comment_text, c.author_name, c.gitlab_mr_url, stats)
        plain == [kind |-> "comment", author |-> c.author_name,
                  text |-> strip(c.comment_text)]
    IN  IF gitlab_mr_text # None
        THEN IF stats # None /\ "error" \in DOMAIN stats
             THEN o \o <<gitlab_mr_text, [kind |-> "hint"]>>
             ELSE Append(o, gitlab_mr_text)
        ELSE Append(o, plain)

\* Lines 461-468 once the statistics are known: the MR line, and the hint when no
\* token is configured and the line has no file statistics.
print_mr(c, o, stats) ==
    LET gitlab_mr_text ==
            format_gitlab_mr_with_stats(c.comment_text, c.author_name, c.gitlab_mr_url, stats)
        plain == [kind |-> "comment", author |-> c.author_name,
                  text |-> strip(c.comment_text)]
    IN  IF gitlab_mr_text # None
        THEN IF GITLAB_TOKEN = "" /\ ~has_files_marker(gitlab_mr_text)
             THEN o \o <<gitlab_mr_text, [kind |-> "hint"]>>
             ELSE Append(o, gitlab_mr_text)
        ELSE Append(o, plain)

\* get_issue_comments (lines 32-59) and lines 431-470 up to the first request of
\* get_gitlab_mr_stats: the body's text and link, and the comment's line unless
\* statistics are to be fetched first.
GetIssueComments ==
    /\ pc = "get_issue_comments"
    /\ LET issue_key == cur.issues[cur.i].key
       IN  \E resp \in PrimaryResponses({[comments |-> x] : x \in CommentsOf(issue_key)},
                                             [comments |-> <<>>]) :
              /\ fetches' = Append(fetches, [what |-> "comments", key |-> issue_key,
                                             resp |-> resp])
              /\ IF primary_raises(resp) THEN Raise(resp)
                 ELSE LET recent_comment ==
                              get_issue_comments(Get(resp.json, "comments", <<>>),
                                                 cur.comment_cutoff_date)
                          body == extract_body(Get(recent_comment, "body", EmptyDict))
                          author_name ==
                              Get(Get(recent_comment, "author", EmptyDict),
                                  "displayName", <<"Unknown">>)
                          c == [cur EXCEPT !.recent_comment = recent_comment,
                                           !.comment_text = body.comment_text,
                                           !.gitlab_mr_url = body.gitlab_mr_url,
                                           !.author_name = author_name]
                          skip == [pc |-> "get_issue_dependencies", cur |-> cur, out |-> out]
                      IN  IF recent_comment = None THEN Goto(skip)
                          ELSE IF strip(body.comment_text) = <<>>
                          THEN Goto([skip EXCEPT !.cur = c])
                          ELSE IF is_bot_author(author_name)
                                  /\ mentions_merge_request(body.comment_text)
                          THEN IF body.gitlab_mr_url # <<>>
                                  /\ mr_is_addressable(body.gitlab_mr_url)
                               THEN Goto([pc |-> "get_gitlab_mr", cur |-> c, out |-> out])
                               ELSE Goto([skip EXCEPT !.cur = c,
                                                      !.out = print_mr(c, out, None)])
                          ELSE Goto([skip EXCEPT !.cur = c, !.out =
                                  Append(out, [kind |-> "comment", author |-> author_name,
                                               text |-> strip(body.comment_text)])])
    /\ UNCHANGED <<config, today, call, ret>>

\* The responses of the source-control API to the MR request.
MrResponses ==
    {Ok([state |-> "opened", title |-> "title"]), Response(401, EmptyDict),
     Response(404, EmptyDict), Response(500, EmptyDict), ConnectionFailure, Unparsable}

\* ... and to the changes request.
MrChangesResponses ==
    {Ok([changes |-> <<[diff |-> DiffHunk], [diff |-> DiffHeadersFirst]>>]),
     Response(500, EmptyDict), ConnectionFailure, Unparsable}

mr_request(what) ==
    [what |-> what,
     project |-> extract_gitlab_mr_info(cur.gitlab_mr_url).project_path,
     mr_id |-> extract_gitlab_mr_info(cur.gitlab_mr_url).mr_id,
     bearer |-> GITLAB_TOKEN]

\* get_gitlab_mr_stats, the MR request (lines 265-281): on an error the MR line is
\* printed without statistics (lines 335-337, 461-468).
GetGitlabMr ==
    /\ pc = "get_gitlab_mr"
    /\ \E resp \in MrResponses :
          /\ fetches' = Append(fetches, mr_request("mr") @@ [resp |-> resp])
          /\ IF mr_response_error(resp, GITLAB_TOKEN) # ""
             THEN LET stats == [error |-> mr_response_error(resp, GITLAB_TOKEN)]
                  IN  Goto([pc  |-> "get_issue_dependencies",
                            cur |-> [cur EXCEPT !.stats = stats],
                            out |-> print_mr(cur, out, stats)])
             ELSE Goto([pc  |-> "get_gitlab_mr_changes",
                        cur |-> [cur EXCEPT !.stats = mr_stats_of(resp.json)],
                        out |-> out])
    /\ UNCHANGED <<config, today, call, ret>>

\* get_gitlab_mr_stats, the changes request (lines 283-322), and the MR line.
GetGitlabMrChanges ==
    /\ pc = "get_gitlab_mr_changes"
    /\ \E resp \in MrChangesResponses :
          /\ fetches' = Append(fetches, mr_request("mr_changes") @@ [resp |-> resp])
          /\ LET stats == stats_after_changes(cur.stats, resp)
             IN  Goto([pc  |-> "get_issue_dependencies",
                       cur |-> [cur EXCEPT !.stats = stats],
                       out |-> print_mr(cur, out, stats)])
    /\ UNCHANGED <<config, today, call, ret>>

\* get_issue_dependencies (lines 66-93) and the first dependency.
GetIssueDependencies ==
    /\ pc = "get_issue_dependencies"
    /\ LET issue_key == cur.issues[cur.i].key
       IN  \E resp \in PrimaryResponses({[fields |-> [issuelinks |-> x]] :
                                           x \in LinksOf(issue_key)},
                                        [fields |-> [issuelinks |-> <<>>]]) :
              /\ fetches' = Append(fetches, [what |-> "issuelinks", key |-> issue_key,
                                             resp |-> resp])
              /\ IF primary_raises(resp) THEN Raise(resp)
                 ELSE Goto(enter_dependency(
                        [forget_comment(cur) EXCEPT !.dependencies =
                            get_issue_dependencies(
                                Get(Get(resp.json, "fields", EmptyDict), "issuelinks", <<>>),
                                PROJECT_KEY)],
                        out, 1))
    /\ UNCHANGED <<config, today, call, ret>>

\* The responses to the request for a dependency with its changelog: every kind
\* of failure for the first dependency, one for the other.
DepIssueResponses(dependency_key) ==
    {Ok(x) : x \in DepIssuesOf(dependency_key)}
        \cup {Response(404, EmptyDict)}
        \cup (IF dependency_key = KeyQ9 THEN {ConnectionFailure, Unparsable} ELSE {})

\* ... and for its comments.
DepCommentResponses(dependency_key) ==
    {Ok([comments |-> x]) : x \in DepCommentsOf(dependency_key)}
        \cup {Response(500, EmptyDict)}
        \cup (IF dependency_key = KeyQ9 THEN {ConnectionFailure} ELSE {})

\* get_dependency_changes up to its comment request (lines 100-149): None, and on
\* to the next dependency, when the fetch fails or the issue is stale. cur.found is
\* the function's list of changes, cur.changes what the last call returned to
\* main() (line 475), <<>> for None.
GetDependencyChanges ==
    /\ pc = "get_dependency_changes"
    /\ LET dependency == cur.dependencies[cur.d]
       IN  \E resp \in DepIssueResponses(dependency.key) :
              /\ fetches' = Append(fetches, [what |-> "changelog", key |-> dependency.key,
                                             resp |-> resp])
              /\ IF dependency_fetch_raises(resp)
                    \/ ~passes_updated_gate(resp.json, cur.comment_cutoff_date)
                 THEN Goto(enter_dependency([cur EXCEPT !.changes = <<>>], out,
                                            cur.d + 1))
                 ELSE Goto([pc  |-> "get_dependency_comments",
                            cur |-> [cur EXCEPT !.found = scan_histories(
                                        Get(Get(resp.json, "changelog", EmptyDict),
                                            "histories", <<>>),
                                        cur.comment_cutoff_date)],
                            out |-> out])
    /\ UNCHANGED <<config, today, call, ret>>

\* What get_dependency_changes returns after its comment request (lines 152-175):
\* <<>> stands for None.
changes_after_comments(changes, resp, cutoff_date) ==
    IF resp.status = 0 \/ (resp.status = 200 /\ resp.unparsable) THEN <<>>
    ELSE IF resp.status = 200
    THEN changes \o new_comments_entry(
            count_recent(Get(resp.json, "comments", <<>>), cutoff_date))
    ELSE changes

\* get_dependency_changes from its comment request (lines 152-175) and lines
\* 476-477: the dependency's line when there are changes.
GetDependencyComments ==
    /\ pc = "get_dependency_comments"
    /\ LET dependency == cur.dependencies[cur.d]
       IN  \E resp \in DepCommentResponses(dependency.key) :
              /\ fetches' = Append(fetches, [what |-> "dependency_comments",
                                             key |-> dependency.key, resp |-> resp])
              /\ LET changes == changes_after_comments(cur.found, resp,
                                                       cur.comment_cutoff_date)
                 IN  Goto(enter_dependency([cur EXCEPT !.found = <<>>, !.changes = changes],
                        IF changes # <<>>
                        THEN Append(out, [kind |-> "dependency", key |-> dependency.key,
                                          status |-> dependency.status,
                                          changes |-> changes])
                        ELSE out,
                        cur.d + 1))
    /\ UNCHANGED <<config, today, call, ret>>

Next ==
    \/ GetNumberOfSprints
    \/ GetActiveSprint
    \/ GetIssuesForEngineer
    \/ GetIssueComments
    \/ GetGitlabMr
    \/ GetGitlabMrChanges
    \/ GetIssueDependencies
    \/ GetDependencyChanges
    \/ GetDependencyComments

Init == InitMain

Spec == Init /\ [][Next]_vars

\* ------------------------------------------------------------------ claims

LastFetch == fetches[Len(fetches)]

\* A response that was received and read.
Answered(resp) == resp.status = 200 /\ ~resp.unparsable

\* The date of a dependency's updated field, None when it has none that parses.
UpdatedOf(resp) == parsed_date(Get(Get(resp.json, "fields", EmptyDict), "updated", <<>>))

\* The step just taken fetched a dependency whose updated date is before the cutoff.
StaleFetched ==
    /\ Len(fetches') = Len(fetches) + 1
    /\ fetches'[Len(fetches')].what = "changelog"
    /\ Answered(fetches'[Len(fetches')].resp)
    /\ UpdatedOf(fetches'[Len(fetches')].resp) # None
    /\ UpdatedOf(fetches'[Len(fetches')].resp).value < cur.comment_cutoff_date

\* C2: get_dependency_changes returns None whenever the linked issue's updated
\* timestamp is before the cutoff, whatever its changelog and comments hold: the
\* call ends in the step that reads the issue, no dependency line is printed, and
\* its comments are not requested.
C2_StaleDependencyIsNone ==
    [][StaleFetched =>
        /\ cur'.changes = <<>>
        /\ cur'.found = <<>>
        /\ \A n \in (Len(out) + 1)..Len(out') : out'[n].kind # "dependency"
        /\ pc' # "get_dependency_comments"]_vars

\* A dependency not updated since the cutoff, whose changelog has a batch after the
\* cutoff with a reported change, was fetched, and the run has moved on.
C2_Witness ==
    /\ Len(fetches) > 0
    /\ LastFetch.what = "changelog"
    /\ Answered(LastFetch.resp)
    /\ UpdatedOf(LastFetch.resp) # None
    /\ UpdatedOf(LastFetch.resp).value < cur.comment_cutoff_date
    /\ scan_histories(LastFetch.resp.json.changelog.histories, cur.comment_cutoff_date) # <<>>
    /\ pc \in {"get_issues_for_engineer", "get_dependency_changes", "done"}

\* The fetches whose failure is propagated.
PrimaryFetches == {"sprint_count", "sprint_page", "search", "comments"}

\* The primary fetches that have come back with a status of the set.
PrimaryWithStatus(statuses) ==
    {k \in 1..Len(fetches) :
        /\ fetches[k].what \in PrimaryFetches
        /\ fetches[k].resp.status \in statuses}

\* The run has ended at its last fetch with the error raised, and takes no step.
EndedWithError ==
    /\ [](\A k \in PrimaryWithStatus(400..599) :
            pc = "raised" /\ cur.error = "HTTPError" /\ k = Len(fetches))
    /\ [][PrimaryWithStatus(400..599) # {} => (fetches' = fetches /\ out' = out)]_vars

\* C6 as stated: a non-2xx response on a primary fetch (sprint count, sprint page,
\* issue search, comment listing) ends the run there with the error raised: the
\* failed fetch stays the last one and no line is printed after it.
C6_Non2xxEndsRun_AsStated ==
    \A k \in PrimaryWithStatus((100..199) \cup (300..599)) :
        pc = "raised" /\ cur.error = "HTTPError" /\ k = Len(fetches)

\* C6, amended: a 4xx or 5xx response on a primary fetch ends the run there with
\* the error raised: the failed fetch stays the last one, and from then on no fetch
\* is issued and no line is printed.
C6_PrimaryFailureEndsRun == EndedWithError

\* The comment listing of the first engineer's issue came back 404 while a second
\* engineer was still to be reported; the run has ended with the error.
C6_Witness ==
    /\ pc = "raised"
    /\ Len(config.engineers) = 2 /\ cur.e = 1
    /\ LastFetch.what = "comments" /\ LastFetch.resp.status = 404
    /\ out[Len(out)] = [kind |-> "browse", key |-> KeyP1]

\* The sprint page was fetched from the offset max(0, total - 50).
PageFetched(k) ==
    /\ k = 2 /\ Len(fetches) >= 2
    /\ fetches[1].what = "sprint_count" /\ Answered(fetches[1].resp)
    /\ fetches[2].what = "sprint_page" /\ Answered(fetches[2].resp)
    /\ fetches[2].startAt =
          (IF fetches[1].resp.json.total > 50 THEN fetches[1].resp.json.total - 50 ELSE 0)

NoActiveOnPage ==
    \A n \in 1..Len(fetches[2].resp.json.values) :
        fetches[2].resp.json.values[n].state # "active"

\* C7: when the fetched page of sprints holds no active sprint, the run ends
\* cleanly: it prints the no-active-sprint message and nothing else, issues no
\* further fetch, and raises no error.
C7_NoActiveSprintEndsCleanly ==
    (Len(fetches) >= 2 /\ PageFetched(2) /\ NoActiveOnPage) =>
        /\ pc = "done"
        /\ cur.error = ""
        /\ out = <<[kind |-> "no_active_sprint"]>>
        /\ Len(fetches) = 2

\* A page of closed and future sprints, fetched from offset 10 of 60, ended the run.
C7_Witness ==
    /\ Len(fetches) >= 2 /\ PageFetched(2) /\ NoActiveOnPage
    /\ fetches[2].startAt = 10
    /\ Len(fetches[2].resp.json.values) = 3
    /\ pc = "done"

\* The scenario of the end-to-end test, read off a finished run: one engineer, an
\* active sprint, the search returning the one issue P-1, its comment listing
\* holding a comment created at or after the cutoff, its links holding a link to
\* Q-9 of another project, Q-9 updated at or after the cutoff, and every request
\* answered.
EndToEndScenario ==
    /\ pc = "done"
    /\ Len(config.engineers) = 1
    /\ \A k \in 1..Len(fetches) : Answered(fetches[k].resp)
    /\ Len(fetches) >= 6
    /\ fetches[3].what = "search"
    /\ fetches[3].resp.json.issues = <<[key |-> KeyP1]>>
    /\ fetches[4].what = "comments" /\ fetches[4].key = KeyP1
    /\ \E n \in 1..Len(fetches[4].resp.json.comments) :
          is_recent(fetches[4].resp.json.comments[n].created, cur.comment_cutoff_date)
    /\ \E k \in 5..Len(fetches) :
          /\ fetches[k].what = "issuelinks" /\ fetches[k].key = KeyP1
          /\ \E n \in 1..Len(fetches[k].resp.json.fields.issuelinks) :
                C3_Chosen(fetches[k].resp.json.fields.issuelinks[n]).key = KeyQ9
    /\ \E k \in 5..Len(fetches) :
          /\ fetches[k].what = "changelog" /\ fetches[k].key = KeyQ9
          /\ UpdatedOf(fetches[k].resp) # None
          /\ UpdatedOf(fetches[k].resp).value >= cur.comment_cutoff_date

\* The report holds, in this order, the sprint's name, the engineer's name, the
\* browse link of P-1, the line of a comment and a change line for Q-9.
EndToEndReport ==
    \E a, b, c, d, e \in 1..Len(out) :
        /\ a < b /\ b < c /\ c < d /\ d < e
        /\ out[a] = [kind |-> "sprint", name |-> "Sprint 42"]
        /\ out[b] = [kind |-> "engineer", name |-> "Alice"]
        /\ out[c] = [kind |-> "browse", key |-> KeyP1]
        /\ out[d].kind \in {"comment", "MR"}
        /\ out[e].kind = "dependency" /\ out[e].key = KeyQ9

\* C4 as stated: in the end-to-end scenario the run prints the sprint name, the
\* engineer's name, the browse link of P-1, a comment line and a dependency change
\* line for Q-9, in this order.
C4_EndToEnd_AsStated == EndToEndScenario => EndToEndReport

\* The most recent comment of P-1 has text that is not blank.
CommentHasText ==
    strip(extract_body(Get(get_issue_comments(fetches[4].resp.json.comments,
                                              cur.comment_cutoff_date),
                           "body", EmptyDict)).comment_text) # <<>>

\* Q-9 has, at or after the cutoff, a changelog entry of a reported field or a
\* comment.
DependencyHasChange ==
    \E k \in 5..(Len(fetches) - 1) :
        /\ fetches[k].what = "changelog" /\ fetches[k].key = KeyQ9
        /\ fetches[k + 1].what = "dependency_comments"
        /\ \/ scan_histories(fetches[k].resp.json.changelog.histories,
                             cur.comment_cutoff_date) # <<>>
           \/ count_recent(fetches[k + 1].resp.json.comments,
                           cur.comment_cutoff_date) > 0

\* C4, amended: in the end-to-end scenario, when moreover the most recent comment
\* has non-blank text and Q-9 has a reported field change or a comment at or after
\* the cutoff, the run prints the five lines in order.
C4_EndToEnd ==
    (EndToEndScenario /\ CommentHasText /\ DependencyHasChange) => EndToEndReport

\* The scenario ran with a person's comment and a status change of Q-9, and the
\* report ends with the dependency's line and the blank line.
C4_Witness ==
    /\ EndToEndScenario /\ CommentHasText /\ DependencyHasChange
    /\ Len(out) = 6
    /\ out[4].kind = "comment"
    /\ out[5].kind = "dependency" /\ out[5].changes[1].text = "Status"

\* The request just made, when the step made one.
Fetched(what) ==
    /\ Len(fetches') = Len(fetches) + 1
    /\ fetches'[Len(fetches')].what = what

NewResp == fetches'[Len(fetches')].resp

\* The lines the step printed.
NewLines == SubSeq(out', Len(out) + 1, Len(out'))

\* C5: a failed secondary fetch (the dependency's detail fetch, the MR statistics
\* fetch: connection error, non-2xx or unparsable) is absorbed: no error is raised,
\* the run goes on, and the item gets no change line, no statistics.
C5_SecondaryFailureAbsorbed ==
    [][/\ (Fetched("changelog") /\ ~Answered(NewResp)) =>
            /\ pc' # "raised"
            /\ \A n \in 1..Len(NewLines) : NewLines[n].kind # "dependency"
       /\ ((Fetched("mr") \/ Fetched("mr_changes")) /\ ~Answered(NewResp)) =>
            /\ pc' = "get_issue_dependencies"
            /\ Len(NewLines) >= 1
            /\ NewLines[1].kind = "MR"
            /\ "stats" \notin DOMAIN NewLines[1]]_vars

\* The step printed the line of a merge-request comment of the bot.
MrPrinted == Len(NewLines) >= 1 /\ NewLines[1].kind = "MR"

HintPrinted == Len(NewLines) >= 2 /\ NewLines[2].kind = "hint"

\* C8 as stated: the hint follows the MR line exactly when the MR request failed
\* with 401, or with 404 while no token is configured.
C8_HintOnAuthFailure_AsStated ==
    [][MrPrinted =>
        (HintPrinted <=>
            /\ Fetched("mr")
            /\ \/ NewResp.status = 401
               \/ NewResp.status = 404 /\ GITLAB_TOKEN = "")]_vars

\* C8, amended: the hint follows the MR line exactly when no token is configured
\* and the line carries no file statistics, whatever the reason (no link, any
\* failure of the MR request); a failed MR request gives the line without
\* statistics.
C8_HintWithoutTokenAndStats ==
    [][MrPrinted =>
        /\ HintPrinted <=> ("gitlab_token" \notin DOMAIN config
                            /\ "stats" \notin DOMAIN NewLines[1])
        /\ Len(NewLines) <= 2
        /\ (Fetched("mr") /\ ~Answered(NewResp)) => "stats" \notin DOMAIN NewLines[1]]_vars

\* Without a token, the MR request came back 500 and the hint was printed.
C8_Witness ==
    /\ Len(fetches) > 0 /\ LastFetch.what = "mr" /\ LastFetch.resp.status = 500
    /\ "gitlab_token" \notin DOMAIN config
    /\ Len(out) >= 2
    /\ out[Len(out) - 1].kind = "MR" /\ out[Len(out)].kind = "hint"

\* The step finished the comment of an issue and the MergeRequestEnricher was
\* active on it: the author is the bot and the text mentions a merge request.
EnricherRan ==
    /\ pc # "get_issue_dependencies" /\ pc' = "get_issue_dependencies"
    /\ cur'.recent_comment # None
    /\ is_bot_author(cur'.author_name)
    /\ mentions_merge_request(cur'.comment_text)

LinkCaptured == cur'.gitlab_mr_url # <<>>

StatsFetched == cur'.stats # None /\ "error" \notin DOMAIN cur'.stats

IdentityOf(text) ==
    [project |-> project_group(text), branch |-> branch_group(text)]

\* C9 as stated: the line is the full statistics when they were fetched, identity
\* plus link when a link was captured without statistics, identity alone without
\* link, the generic marker without link and identity; never the plain comment.
C9_Precedence_AsStated ==
    [][EnricherRan =>
        /\ Len(NewLines) >= 1
        /\ NewLines[1].kind = "MR"
        /\ IF LinkCaptured /\ StatsFetched
           THEN /\ {"stats", "url"} \subseteq DOMAIN NewLines[1]
                /\ NewLines[1].url = cur'.gitlab_mr_url
           ELSE IF LinkCaptured
           THEN /\ DOMAIN NewLines[1] = {"kind", "url", "project", "branch"}
                /\ NewLines[1].url = cur'.gitlab_mr_url
           ELSE IF identity_parses(cur'.comment_text)
           THEN NewLines[1] = [kind |-> "MR"] @@ IdentityOf(cur'.comment_text)
           ELSE NewLines[1] = [kind |-> "MR", generic |-> TRUE]]_vars

\* C9, amended: as stated, except that with a link and without statistics the line
\* is identity plus link when project and branch parse and the link alone when
\* they do not.
C9_Precedence ==
    [][EnricherRan =>
        /\ Len(NewLines) >= 1
        /\ NewLines[1].kind = "MR"
        /\ IF LinkCaptured /\ StatsFetched
           THEN /\ {"stats", "url"} \subseteq DOMAIN NewLines[1]
                /\ NewLines[1].url = cur'.gitlab_mr_url
                /\ NewLines[1].stats.state = cur'.stats.state
           ELSE IF LinkCaptured /\ identity_parses(cur'.comment_text)
           THEN NewLines[1] = [kind |-> "MR", url |-> cur'.gitlab_mr_url]
                                 @@ IdentityOf(cur'.comment_text)
           ELSE IF LinkCaptured
           THEN NewLines[1] = [kind |-> "MR", url |-> cur'.gitlab_mr_url]
           ELSE IF identity_parses(cur'.comment_text)
           THEN NewLines[1] = [kind |-> "MR"] @@ IdentityOf(cur'.comment_text)
           ELSE NewLines[1] = [kind |-> "MR", generic |-> TRUE]]_vars

\* The bot's comment carried a link and a text without project and branch, the MR
\* request failed, and the line printed is the link alone.
C9_Witness ==
    /\ pc = "get_issue_dependencies"
    /\ is_bot_author(cur.author_name) /\ mentions_merge_request(cur.comment_text)
    /\ cur.gitlab_mr_url = UrlMr
    /\ ~identity_parses(cur.comment_text)
    /\ "error" \in DOMAIN cur.stats
    /\ \E n \in 1..Len(out) : out[n] = [kind |-> "MR", url |-> UrlMr]

====
